---- MODULE Spec2Model ----
(***************************************************************************)
(* The request handlers of src/routes.rs (index, blog, post, hire_me), the *)
(* ServerError taxonomy they answer with, and the collaborators they call: *)
(* the Tera template set, the blocking thread pool behind web::block and   *)
(* the two queries of crate::db.                                           *)
(***************************************************************************)
EXTENDS Naturals, Sequences, FiniteSets

VARIABLES
    store,   \* rows of the posts table, in insertion order
    tmpl,    \* template names the shared Tera instance can resolve
    db,      \* state of the database side: pool, backend, blocking workers
    req,     \* per request slot: the handler's position and locals
    worker   \* request that occupies the request-handling thread, 0 = none

vars == <<store, tmpl, db, req, worker>>

----------------------------------------------------------------------------
(* Bounds *)

NumReq == 2        \* request slots served concurrently
SmallPosts == 1    \* largest store of the handler specification
MaxPosts == 11     \* largest store of the posts specification
MaxStride == 3     \* timestamp patterns of the posts specification
MaxPeriod == 4

Requests == 1..NumReq

----------------------------------------------------------------------------
(* ServerError, routes.rs 10-32 *)

InternalError == "InternalError"
PostNotFound == "PostNotFound"
ServerError == {InternalError, PostNotFound}

InternalErrorMsg == "An internal error ocurred. Please try again later."
PostNotFoundMsg == "The post you are looking for does not exist."

HtmlUtf8 == "text/html; charset=utf-8"

to_string(e) ==
    IF e = InternalError THEN InternalErrorMsg ELSE PostNotFoundMsg

status_code_always_500(e) == 500

status_code(e) ==
    IF e = PostNotFound THEN 404 ELSE 500

error_response(e) ==
    [status |-> status_code(e), contentType |-> HtmlUtf8, body |-> <<to_string(e)>>]

\* HttpResponse::Ok().body(rendered): no header is set by the handler.
OkResponse(rendered) ==
    [status |-> 200, contentType |-> "", body |-> rendered]

NoResponse == [status |-> 0, contentType |-> "", body |-> <<>>]

----------------------------------------------------------------------------
(* The template engine: render(name, context) -> body | error *)

IndexTemplate == "index.html.tera"
BlogTemplate == "blog.html.tera"
PostTemplate == "post.html.tera"
HireMeTemplate == "hireme.html.tera"
Templates == {IndexTemplate, BlogTemplate, PostTemplate, HireMeTemplate}

\* The template directory as loaded at startup: complete, short of one
\* file, or empty.
TemplateSets == {Templates, {}} \cup {Templates \ {t} : t \in Templates}

\* Context::new() and Context::insert: an ordered list of <<key, value>>.
EmptyContext == <<>>
insert(ctx, key, value) == Append(ctx, <<key, value>>)
Keys(ctx) == {ctx[i][1] : i \in 1..Len(ctx)}

RequiredKeys(name) ==
    IF name = BlogTemplate THEN {"posts"}
    ELSE IF name = PostTemplate THEN {"post"}
    ELSE {}

RECURSIVE Slugs(_)
Slugs(rows) ==
    IF rows = <<>> THEN <<>> ELSE <<rows[1].slug>> \o Slugs(Tail(rows))

RECURSIVE Expand(_)
Expand(ctx) ==
    IF ctx = <<>> THEN <<>>
    ELSE <<ctx[1][1]>> \o Slugs(ctx[1][2]) \o Expand(Tail(ctx))

\* The body is the template's name followed by the data it was given.
render(name, ctx) ==
    IF name \notin tmpl
    THEN [ok |-> FALSE, body |-> <<>>, error |-> <<"Template not found", name>>]
    ELSE IF ~(RequiredKeys(name) \subseteq Keys(ctx))
    THEN [ok |-> FALSE, body |-> <<>>, error |-> <<"Variable not found", name>>]
    ELSE [ok |-> TRUE, body |-> <<name>> \o Expand(ctx), error |-> <<>>]

----------------------------------------------------------------------------
(* Data Access: crate::db *)

SlugNames == <<"a", "b", "c", "d", "e", "f", "g", "h", "i", "j", "k", "l", "m">>

\* k posts; post i is published at ((i * s) % m) + 1.
MakeStore(k, s, m) ==
    [i \in 1..k |-> [slug |-> SlugNames[i], published |-> ((i * s) % m) + 1]]

DbStates == {"healthy", "poolFailing", "queryFailing", "workersDown"}

\* What the pool reports when it hands out no connection.
PoolReasons == {"timed out waiting for connection", "connection refused"}

NoTask == [kind |-> "none", reason |-> "", rows |-> <<>>]
OkRows(rows) == [kind |-> "Ok", reason |-> "", rows |-> rows]
DatabaseError(kind, reason) == [kind |-> kind, reason |-> reason, rows |-> <<>>]
Canceled == [kind |-> "Canceled", reason |-> "", rows |-> <<>>]

Min(a, b) == IF a < b THEN a ELSE b

\* ORDER BY published DESC; rows with equal timestamps come in either
\* insertion order or its reverse, as the backend pleases.
Precedes(i, j, tie) ==
    \/ store[i].published > store[j].published
    \/ /\ store[i].published = store[j].published
       /\ IF tie = "asc" THEN i < j ELSE i > j

Rank(i, tie) == Cardinality({j \in 1..Len(store) : Precedes(j, i, tie)}) + 1

select_last_n_posts(n, tie, reason) ==
    IF db = "poolFailing" THEN DatabaseError("ConnectionPoolError", reason)
    ELSE IF db = "queryFailing" THEN DatabaseError("QueryError", "backend")
    ELSE OkRows([k \in 1..Min(n, Len(store)) |->
                    store[CHOOSE i \in 1..Len(store) : Rank(i, tie) = k]])

select_post_with_slug(slug, reason) ==
    IF db = "poolFailing" THEN DatabaseError("ConnectionPoolError", reason)
    ELSE IF db = "queryFailing" THEN DatabaseError("QueryError", "backend")
    ELSE IF \E i \in 1..Len(store) : store[i].slug = slug
    THEN OkRows(<<store[CHOOSE i \in 1..Len(store) : store[i].slug = slug]>>)
    ELSE DatabaseError("NotFound", slug)

----------------------------------------------------------------------------
(* Request slots *)

Routes == {"index", "blog", "post", "hire_me"}
RequestSlugs == {SlugNames[1], SlugNames[2]}

Idle ==
    [route |-> "", slug |-> "", pc |-> "idle", task |-> NoTask,
     ctx |-> EmptyContext, resp |-> NoResponse, log |-> <<>>, steps |-> <<>>]

\* The router hands a request to its handler; a finished slot takes the next.
Arrive(r, route, slug) ==
    /\ req[r].pc \in {"idle", "done"}
    /\ (route = "post") = (slug # "")
    /\ req' = [req EXCEPT ![r] = [Idle EXCEPT !.route = route, !.slug = slug,
                                              !.pc = "start"]]
    /\ UNCHANGED <<store, tmpl, db, worker>>

RenderAndRespondLeaky(q, name, ctx) ==
    LET rendered == render(name, ctx) IN
    IF rendered.ok
    THEN [q EXCEPT !.ctx = ctx, !.pc = "done",
                   !.steps = q.steps \o <<"render", "respond">>,
                   !.resp = OkResponse(rendered.body)]
    ELSE [q EXCEPT !.ctx = ctx, !.pc = "done",
                   !.steps = q.steps \o <<"render", "respond">>,
                   !.log = Append(q.log, <<"Failed to render template: ">> \o rendered.error),
                   !.resp = [error_response(InternalError) EXCEPT !.body = rendered.error]]

\* tmpl.render(name, &context).map_err(..)?; Ok(HttpResponse::Ok().body(rendered))
RenderAndRespond(q, name, ctx) ==
    LET rendered == render(name, ctx) IN
    IF rendered.ok
    THEN [q EXCEPT !.ctx = ctx, !.pc = "done",
                   !.steps = q.steps \o <<"render", "respond">>,
                   !.resp = OkResponse(rendered.body)]
    ELSE [q EXCEPT !.ctx = ctx, !.pc = "done",
                   !.steps = q.steps \o <<"render", "respond">>,
                   !.log = Append(q.log, <<"Failed to render template: ">> \o rendered.error),
                   !.resp = error_response(InternalError)]

FailLeaky(q, e, line) ==
    [q EXCEPT !.pc = "done", !.steps = Append(q.steps, "respond"),
              !.log = Append(q.log, line),
              !.resp = [error_response(e) EXCEPT !.body = line]]

\* The ? operator on a mapped error: the handler returns Err(e).
Fail(q, e, line) ==
    [q EXCEPT !.pc = "done", !.steps = Append(q.steps, "respond"),
              !.log = Append(q.log, line), !.resp = error_response(e)]

index_checks_db(r) ==
    /\ req[r].pc = "start" /\ req[r].route = "index"
    /\ worker \in {0, r}
    /\ req' = [req EXCEPT ![r] =
         IF db = "poolFailing"
         THEN Fail(req[r], InternalError, <<"Error with connection pool: ">>)
         ELSE RenderAndRespond(req[r], IndexTemplate, EmptyContext)]
    /\ worker' = 0
    /\ UNCHANGED <<store, tmpl, db>>

index(r) ==
    /\ req[r].pc = "start" /\ req[r].route = "index"
    /\ worker \in {0, r}
    /\ req' = [req EXCEPT ![r] = RenderAndRespond(req[r], IndexTemplate, EmptyContext)]
    /\ worker' = 0
    /\ UNCHANGED <<store, tmpl, db>>

hire_me(r) ==
    /\ req[r].pc = "start" /\ req[r].route = "hire_me"
    /\ worker \in {0, r}
    /\ req' = [req EXCEPT ![r] = RenderAndRespond(req[r], HireMeTemplate, EmptyContext)]
    /\ worker' = 0
    /\ UNCHANGED <<store, tmpl, db>>

\* The query run on the request-handling thread, which it keeps.
BlockInline(r) ==
    /\ req[r].pc = "start" /\ req[r].route \in {"blog", "post"}
    /\ worker \in {0, r}
    /\ req' = [req EXCEPT ![r].pc = "waiting", ![r].steps = Append(@, "gather")]
    /\ worker' = r
    /\ UNCHANGED <<store, tmpl, db>>

\* web::block(closure).await: the closure goes to the blocking pool and the
\* handler's future yields the request-handling thread.
Block(r) ==
    /\ req[r].pc = "start" /\ req[r].route \in {"blog", "post"}
    /\ worker \in {0, r}
    /\ req' = [req EXCEPT ![r].pc = "waiting", ![r].steps = Append(@, "gather")]
    /\ worker' = 0
    /\ UNCHANGED <<store, tmpl, db>>

BlogLimitOffByOne == 10 - 1

BlogLimit == 10

\* The blocking pool runs the closure of blog, or drops it.
blog_query(r) ==
    /\ req[r].pc = "waiting" /\ req[r].route = "blog"
    /\ \E tie \in {"asc", "desc"}, reason \in PoolReasons :
         req' = [req EXCEPT ![r].pc = "ready",
                            ![r].task = IF db = "workersDown" THEN Canceled
                                        ELSE select_last_n_posts(BlogLimit, tie, reason)]
    /\ UNCHANGED <<store, tmpl, db, worker>>

\* The blocking pool runs the closure of post, or drops it.
post_query(r) ==
    /\ req[r].pc = "waiting" /\ req[r].route = "post"
    /\ \E reason \in PoolReasons :
         req' = [req EXCEPT ![r].pc = "ready",
                            ![r].task = IF db = "workersDown" THEN Canceled
                                        ELSE select_post_with_slug(req[r].slug, reason)]
    /\ UNCHANGED <<store, tmpl, db, worker>>

BlogMapErrNotFoundByDefault(e) ==
    IF e.kind = "ConnectionPoolError" THEN InternalError ELSE PostNotFound

BlogMapErr(e) ==
    IF e.kind = "ConnectionPoolError" THEN InternalError ELSE InternalError

BlogLogLine(e) ==
    IF e.kind = "ConnectionPoolError"
    THEN <<"Error with connection pool: ", e.kind, e.reason>>
    ELSE <<"Database error: ", e.kind, e.reason>>

PostMapErrNoNotFound(e) ==
    IF e.kind = "ConnectionPoolError" THEN InternalError ELSE InternalError

PostMapErrQueryAsNotFound(e) ==
    IF e.kind = "ConnectionPoolError" THEN InternalError
    ELSE IF e.kind \in {"NotFound", "QueryError"} THEN PostNotFound
    ELSE InternalError

PostMapErr(e) ==
    IF e.kind = "ConnectionPoolError" THEN InternalError
    ELSE IF e.kind = "NotFound" THEN PostNotFound
    ELSE InternalError

PostLogLine(e) ==
    IF e.kind = "ConnectionPoolError"
    THEN <<"Error with connection pool: ", e.kind, e.reason>>
    ELSE IF e.kind = "NotFound"
    THEN <<"Post not found: ", e.kind, e.reason>>
    ELSE <<"Database error: ", e.kind, e.reason>>

\* blog that renders whatever the query gave, failed or not.
blog_renders_anyway(r) ==
    /\ req[r].pc = "ready" /\ req[r].route = "blog"
    /\ worker \in {0, r}
    /\ LET q == req[r]
           posts == q.task
       IN req' = [req EXCEPT ![r] =
            RenderAndRespond([q EXCEPT !.steps = Append(q.steps, "insert")],
                             BlogTemplate,
                             insert(EmptyContext, "posts", posts.rows))]
    /\ worker' = 0
    /\ UNCHANGED <<store, tmpl, db>>

\* blog after the await: map_err(..)?, context.insert, render, respond.
blog(r) ==
    /\ req[r].pc = "ready" /\ req[r].route = "blog"
    /\ worker \in {0, r}
    /\ LET q == req[r]
           posts == q.task
       IN req' = [req EXCEPT ![r] =
            IF posts.kind # "Ok"
            THEN Fail(q, BlogMapErr(posts), BlogLogLine(posts))
            ELSE RenderAndRespond([q EXCEPT !.steps = Append(q.steps, "insert")],
                                  BlogTemplate,
                                  insert(EmptyContext, "posts", posts.rows))]
    /\ worker' = 0
    /\ UNCHANGED <<store, tmpl, db>>

\* post after the await: map_err(..)?, context.insert, render, respond.
post(r) ==
    /\ req[r].pc = "ready" /\ req[r].route = "post"
    /\ worker \in {0, r}
    /\ LET q == req[r]
           found == q.task
       IN req' = [req EXCEPT ![r] =
            IF found.kind # "Ok"
            THEN Fail(q, PostMapErr(found), PostLogLine(found))
            ELSE RenderAndRespond([q EXCEPT !.steps = Append(q.steps, "insert")],
                                  PostTemplate,
                                  insert(EmptyContext, "post", found.rows))]
    /\ worker' = 0
    /\ UNCHANGED <<store, tmpl, db>>

\* The database side goes down: pool, backend or blocking workers.
Degrade ==
    /\ db = "healthy"
    /\ db' \in DbStates \ {"healthy"}
    /\ UNCHANGED <<store, tmpl, req, worker>>

----------------------------------------------------------------------------
(* Specifications *)

Init ==
    /\ store \in {MakeStore(k, 1, SmallPosts + 1) : k \in 0..SmallPosts}
    /\ tmpl \in TemplateSets
    /\ db \in DbStates
    /\ req = [r \in Requests |-> Idle]
    /\ worker = 0

Next ==
    \/ \E r \in Requests, route \in Routes, slug \in RequestSlugs \cup {""} :
         Arrive(r, route, slug)
    \/ \E r \in Requests : index(r)
    \/ \E r \in Requests : hire_me(r)
    \/ \E r \in Requests : Block(r)
    \/ \E r \in Requests : blog_query(r)
    \/ \E r \in Requests : post_query(r)
    \/ \E r \in Requests : blog(r)
    \/ \E r \in Requests : post(r)
    \/ Degrade

Spec == Init /\ [][Next]_vars

\* One blog request against stores of every size up to MaxPosts.
InitPosts ==
    /\ store \in {MakeStore(k, s, m) : k \in 0..MaxPosts, s \in 0..MaxStride,
                                        m \in 1..MaxPeriod}
    /\ tmpl \in {Templates, Templates \ {BlogTemplate}}
    /\ db = "healthy"
    /\ req = [r \in Requests |-> Idle]
    /\ worker = 0

NextPosts ==
    \/ Arrive(1, "blog", "")
    \/ Block(1)
    \/ blog_query(1)
    \/ blog(1)

SpecPosts == InitPosts /\ [][NextPosts]_vars

\* The request whose query the database may never answer.
SlowReq == CHOOSE r \in Requests : \A q \in Requests : r <= q

InitLive ==
    /\ store = MakeStore(SmallPosts, 1, SmallPosts + 1)
    /\ tmpl \in {Templates, Templates \ {IndexTemplate}}
    /\ db \in DbStates
    /\ req = [r \in Requests |-> Idle]
    /\ worker = 0

NextLive ==
    \/ \E r \in Requests, route \in Routes, slug \in RequestSlugs \cup {""} :
         Arrive(r, route, slug)
    \/ \E r \in Requests : index(r)
    \/ \E r \in Requests : hire_me(r)
    \/ \E r \in Requests : Block(r)
    \/ \E r \in Requests : blog_query(r)
    \/ \E r \in Requests : post_query(r)
    \/ \E r \in Requests : blog(r)
    \/ \E r \in Requests : post(r)

\* The executor polls every handler that can run, and the blocking pool
\* finishes every closure but, possibly, that of SlowReq.
Fairness ==
    /\ \A r \in Requests :
         /\ WF_vars(index(r))
         /\ WF_vars(hire_me(r))
         /\ WF_vars(Block(r))
         /\ WF_vars(blog(r))
         /\ WF_vars(post(r))
    /\ \A r \in Requests \ {SlowReq} :
         /\ WF_vars(blog_query(r))
         /\ WF_vars(post_query(r))

SpecLive == InitLive /\ [][NextLive]_vars /\ Fairness

----------------------------------------------------------------------------
(* Vocabulary of the properties *)

Elems(seq) == {seq[i] : i \in 1..Len(seq)}

Done(r) == req[r].pc = "done"

TemplateOf(route) ==
    IF route = "index" THEN IndexTemplate
    ELSE IF route = "blog" THEN BlogTemplate
    ELSE IF route = "post" THEN PostTemplate
    ELSE HireMeTemplate

InStore(slug) == \E i \in 1..Len(store) : store[i].slug = slug

Is500(resp) ==
    /\ resp.status = 500
    /\ resp.body = <<"An internal error ocurred. Please try again later.">>

Is404(resp) ==
    /\ resp.status = 404
    /\ resp.body = <<"The post you are looking for does not exist.">>

\* Some step of slot q can be taken: the server still serves it.
Serves(q) ==
    \/ ENABLED (\E route \in Routes, slug \in RequestSlugs \cup {""} :
                  Arrive(q, route, slug))
    \/ ENABLED index(q)
    \/ ENABLED hire_me(q)
    \/ ENABLED Block(q)
    \/ ENABLED (blog_query(q) \/ post_query(q))
    \/ ENABLED blog(q)
    \/ ENABLED post(q)

----------------------------------------------------------------------------
(* C1: in post, a lookup that fails with NotFound is answered 404 with     *)
(* exactly the PostNotFound message, and the template is not rendered,     *)
(* whatever the slug and the store.                                        *)
C1_PostNotFound ==
    \A r \in Requests :
        (Done(r) /\ req[r].route = "post" /\ req[r].task.kind = "NotFound")
            => /\ Is404(req[r].resp)
               /\ req[r].resp.contentType = "text/html; charset=utf-8"
               /\ "render" \notin Elems(req[r].steps)
               /\ req[r].ctx = EmptyContext

C1_Witness ==
    \E r \in Requests :
        /\ Done(r) /\ req[r].route = "post" /\ req[r].task.kind = "NotFound"
        /\ ~InStore(req[r].slug) /\ store # <<>>
        /\ req[r].resp.status = 404

(* C2: in blog and in post, a connection-pool failure is answered 500 with *)
(* the InternalError message, the same response for every failure reason;  *)
(* the reason is nowhere in the body.                                      *)
C2_PoolFailureOpaque ==
    \A r \in Requests :
        (Done(r) /\ req[r].task.kind = "ConnectionPoolError")
            => /\ req[r].route \in {"blog", "post"}
               /\ Is500(req[r].resp)
               /\ req[r].task.reason \notin Elems(req[r].resp.body)
               /\ \A q \in Requests :
                    (Done(q) /\ req[q].task.kind = "ConnectionPoolError")
                        => req[q].resp = req[r].resp

C2_Witness ==
    \E r, q \in Requests :
        /\ Done(r) /\ req[r].route = "blog" /\ req[r].task.kind = "ConnectionPoolError"
        /\ Done(q) /\ req[q].route = "post" /\ req[q].task.kind = "ConnectionPoolError"
        /\ req[r].task.reason # req[q].task.reason
        /\ req[r].resp.status = 500 /\ req[q].resp.status = 500

(* C3: index and hire_me answer 200 whenever their template renders, in    *)
(* every database state and for every store: they place no database call. *)
C3_NoDataRoutes ==
    \A r \in Requests :
        (Done(r) /\ req[r].route \in {"index", "hire_me"})
            => /\ req[r].task = NoTask
               /\ "gather" \notin Elems(req[r].steps)
               /\ (TemplateOf(req[r].route) \in tmpl) => req[r].resp.status = 200

C3_Witness ==
    \E r, q \in Requests :
        /\ Done(r) /\ req[r].route = "index" /\ req[r].resp.status = 200
        /\ Done(q) /\ req[q].route = "hire_me" /\ req[q].resp.status = 200
        /\ db = "poolFailing" /\ store = <<>>

(* C4: on every route a failed render is answered 500 with the             *)
(* InternalError message, nothing of the rendering error is in the body,   *)
(* and the server goes on serving every slot.                              *)
C4_RenderFailure ==
    \A r \in Requests :
        (Done(r) /\ "render" \in Elems(req[r].steps)
                 /\ ~render(TemplateOf(req[r].route), req[r].ctx).ok)
            => /\ Is500(req[r].resp)
               /\ req[r].resp.contentType = "text/html; charset=utf-8"
               /\ Elems(render(TemplateOf(req[r].route), req[r].ctx).error)
                    \cap Elems(req[r].resp.body) = {}
               /\ worker = 0
               /\ \A q \in Requests : Serves(q)

C4_Witness ==
    \E r, q \in Requests :
        /\ Done(r) /\ req[r].route = "post" /\ "render" \in Elems(req[r].steps)
        /\ PostTemplate \notin tmpl /\ req[r].resp.status = 500
        /\ Done(q) /\ req[q].route = "index" /\ req[q].resp.status = 200

\* The rows a store gives for the ten most recent posts.
RowsMostRecentFirst(rows) ==
    /\ Len(rows) = Min(Len(store), 10)
    /\ \A i \in 1..Len(rows) : \E j \in 1..Len(store) : rows[i] = store[j]
    /\ \A i, j \in 1..Len(rows) : i # j => rows[i].slug # rows[j].slug
    /\ \A i, j \in 1..Len(rows) :
         rows[i].published > rows[j].published => i < j
    /\ \A i \in 1..Len(rows), j \in 1..Len(store) :
         store[j].published > rows[i].published
            => \E h \in 1..Len(rows) : rows[h] = store[j]
    /\ Len(store) < 10 => Elems(rows) = Elems(store)

C5_ReachesTruncation ==
    \E r \in Requests :
        /\ Done(r) /\ req[r].route = "blog" /\ req[r].resp.status = 200
        /\ Len(store) = 11 /\ Len(req[r].task.rows) = 10
        /\ \E i, j \in 1..Len(store) : store[i].published < store[j].published

C6_ErrorResponses ==
    /\ \A r \in Requests :
         (Done(r) /\ req[r].resp.status # 200)
            => /\ req[r].resp.contentType = "text/html; charset=utf-8"
               /\ Is500(req[r].resp) \/ Is404(req[r].resp)
               /\ \E e \in ServerError : req[r].resp = error_response(e)
    /\ status_code(InternalError) = 500 /\ status_code(PostNotFound) = 404
    /\ to_string(InternalError) = "An internal error ocurred. Please try again later."
    /\ to_string(PostNotFound) = "The post you are looking for does not exist."
    /\ \A e, f \in ServerError :
         e # f => status_code(e) # status_code(f) /\ to_string(e) # to_string(f)

C6_Witness ==
    \E r, q \in Requests :
        /\ Done(r) /\ req[r].resp.status = 404
        /\ Done(q) /\ req[q].resp.status = 500

(* C7: in blog and in post, a dispatched query that the blocking pool      *)
(* cancels is answered 500 with the InternalError message, never 404 or    *)
(* 200, and a handler whose query has completed or failed can always go on *)
(* to its response.                                                        *)
C7_Canceled ==
    \A r \in Requests :
        /\ (Done(r) /\ req[r].task.kind = "Canceled")
             => /\ Is500(req[r].resp)
                /\ "render" \notin Elems(req[r].steps)
        /\ req[r].pc = "ready" => ENABLED (blog(r) \/ post(r))

C7_Witness ==
    \E r, q \in Requests :
        /\ Done(r) /\ req[r].route = "blog" /\ req[r].task.kind = "Canceled"
        /\ Done(q) /\ req[q].route = "post" /\ req[q].task.kind = "Canceled"
        /\ req[r].resp.status = 500 /\ req[q].resp.status = 500

(* C8: while the query of one request never returns, every other request   *)
(* that has arrived gets its response; the request-handling thread is      *)
(* never held across a query; and a step of one request changes no other   *)
(* request, nor the template set, nor the store.                           *)
C8_Isolation ==
    /\ \A q \in Requests \ {SlowReq} :
         (req[q].pc = "start") ~> (req[q].pc = "done")
    /\ [](worker = 0)
    /\ [][\A r \in Requests :
            req'[r] # req[r]
               => /\ \A q \in Requests \ {r} : req'[q] = req[q]
                  /\ tmpl' = tmpl /\ store' = store]_vars

C8_Witness ==
    \E q \in Requests \ {SlowReq} :
        /\ req[SlowReq].pc = "waiting" /\ req[SlowReq].route = "post"
        /\ Done(q) /\ req[q].route = "blog" /\ req[q].resp.status = 200

(* C9: in blog and in post the steps are gather, insert, render, respond   *)
(* in that order: render runs only on the result of a query that           *)
(* succeeded, inserted under "posts" (blog) or "post" (post); a failed     *)
(* query is answered without rendering; 200 is sent only after a render    *)
(* that succeeded.                                                         *)
C9_GatherRenderRespond ==
    \A r \in Requests :
        req[r].route \in {"blog", "post"} =>
            LET q == req[r]
                key == IF q.route = "blog" THEN "posts" ELSE "post"
            IN /\ "render" \in Elems(q.steps)
                    => /\ q.task.kind = "Ok"
                       /\ q.steps = <<"gather", "insert", "render", "respond">>
                       /\ q.ctx = <<<<key, q.task.rows>>>>
               /\ (Done(r) /\ q.task.kind # "Ok")
                    => /\ q.steps = <<"gather", "respond">>
                       /\ q.ctx = EmptyContext
                       /\ q.resp.status # 200
               /\ q.resp.status = 200
                    => /\ "render" \in Elems(q.steps)
                       /\ render(TemplateOf(q.route), q.ctx).ok
                       /\ q.resp.body = render(TemplateOf(q.route), q.ctx).body
               /\ ~Done(r) => q.resp = NoResponse /\ "render" \notin Elems(q.steps)
               /\ q.pc = "waiting" => q.task = NoTask

C9_Witness ==
    \E r, q \in Requests :
        /\ Done(r) /\ req[r].route = "post" /\ req[r].resp.status = 200
        /\ req[r].steps = <<"gather", "insert", "render", "respond">>
        /\ Done(q) /\ req[q].route = "blog" /\ req[q].task.kind = "QueryError"
        /\ req[q].steps = <<"gather", "respond">>

(* C10: every response status is 200, 404 or 500; 404 comes only from post *)
(* and only for NotFound; every other failure in post gives 500; in blog   *)
(* every failure, a NotFound included, gives 500.                          *)
BlockingErrors ==
    {DatabaseError(k, x) : k \in {"ConnectionPoolError", "NotFound", "QueryError"},
                           x \in PoolReasons \cup RequestSlugs \cup {"backend"}}
        \cup {Canceled}

C10_Statuses ==
    /\ \A r \in Requests :
         Done(r) =>
            /\ req[r].resp.status \in {200, 404, 500}
            /\ req[r].resp.status = 404
                 => req[r].route = "post" /\ req[r].task.kind = "NotFound"
            /\ req[r].task.kind \in {"ConnectionPoolError", "QueryError", "Canceled"}
                 => req[r].resp.status = 500
            /\ (req[r].route = "blog" /\ req[r].task.kind # "Ok")
                 => req[r].resp.status = 500
    /\ \A e \in BlockingErrors :
         /\ status_code(BlogMapErr(e)) = 500
         /\ status_code(PostMapErr(e)) = IF e.kind = "NotFound" THEN 404 ELSE 500

C10_Witness ==
    \E r, q \in Requests :
        /\ Done(r) /\ req[r].route = "post" /\ req[r].task.kind = "QueryError"
        /\ req[r].resp.status = 500
        /\ Done(q) /\ req[q].route = "blog" /\ req[q].task.kind = "QueryError"
        /\ req[q].resp.status = 500

====
